---- MODULE Spec2Model ----
(***************************************************************************)
(* A model of pingdom.py: the Pingdom client class, its session token, its *)
(* two lazily filled caches and the remote calls it dispatches through the *)
(* SOAP proxy.  The proxy is the environment: every call it receives is    *)
(* recorded in `calls' and answered nondeterministically.                  *)
(*                                                                         *)
(* Python values are records whose field set is their type, so that two    *)
(* values of different types are simply unequal:                           *)
(*   None = [NoneType |-> TRUE], "s" = [str |-> "s"], 3 = [int |-> 3],     *)
(*   [a, b] = [list |-> <<a, b>>], (a, b) = [tuple |-> <<a, b>>],          *)
(*   True/False = [bool |-> ...]; a dict is the record of its keys.        *)
(***************************************************************************)
EXTENDS Integers, Sequences, FiniteSets, TLC

VARIABLES phase, apikey, credentials, sessionid, checks, locations,
          calls, accesses, result, stderr, statuses

vars == <<phase, apikey, credentials, sessionid, checks, locations,
          calls, accesses, result, stderr, statuses>>

(* ------------------------------ bounds --------------------------------- *)

\* Caller operations (finalizer runs included) after the constructor.
MaxOps == 3

\* The largest status a service that does not keep to the listed codes
\* answers with.
MaxStatus == 8

(* --------------------------- Python values ----------------------------- *)

None == [NoneType |-> TRUE]

PyStr(s) == [str |-> s]

PyInt(n) == [int |-> n]

PyBool(b) == [bool |-> b]

PyList(s) == [list |-> s]

PyTuple(s) == [tuple |-> s]

(* --------------------------- module tables ----------------------------- *)

STATUS_CODES ==
    [n \in 0..7 |->
        CASE n = 0 -> "OK"
          [] n = 1 -> "Reserved"
          [] n = 2 -> "Reserved"
          [] n = 3 -> "Invalid Argument"
          [] n = 4 -> "Internal Error"
          [] n = 5 -> "Wrong Identification"
          [] n = 6 -> "Wrong Authorization"
          [] n = 7 -> "Wrong Authentication"]

\* REPORT_RESOLUTIONS, were the table to list an hourly resolution too.
REPORT_RESOLUTIONS_withHourly ==
    [r \in {"DAILY", "WEEKLY", "MONTHLY", "HOURLY"} |->
        CASE r = "DAILY" -> "Daily"
          [] r = "WEEKLY" -> "Weekly"
          [] r = "MONTHLY" -> "Montly"
          [] r = "HOURLY" -> "Hourly"]

REPORT_RESOLUTIONS ==
    [r \in {"DAILY", "WEEKLY", "MONTHLY"} |->
        CASE r = "DAILY" -> "Daily"
          [] r = "WEEKLY" -> "Weekly"
          [] r = "MONTHLY" -> "Montly"]

(* ----------------------------- exceptions ------------------------------ *)

\* STATUS_CODES[status]: a key that is not in the table raises KeyError.
HasStatusCode(status) ==
    /\ DOMAIN status = {"int"}
    /\ status.int \in DOMAIN STATUS_CODES

\* PingdomException(status): the constructor formats the message from the
\* table, so it raises KeyError itself for a status the table lacks.
PingdomException(status) ==
    IF HasStatusCode(status)
    THEN [exception |-> "PingdomException",
          status |-> status,
          message |-> <<"Error %s: %s", status, PyStr(STATUS_CODES[status.int])>>]
    ELSE [exception |-> "KeyError", key |-> status]

ValueError(msg) == [exception |-> "ValueError", message |-> msg]

TypeError(msg) == [exception |-> "TypeError", message |-> msg]

AttributeError(name) == [exception |-> "AttributeError", attribute |-> name]

\* An error raised by the SOAP proxy itself (network failure, bad response).
TransportError == [exception |-> "TransportError"]

IsException(v) == "exception" \in DOMAIN v

(* ------------------------ inputs and answers --------------------------- *)

ApiKeys == {"key1"}

Usernames == {"alice"}

Passwords == {"pw"}

SessionIds == {"sess1", "sess2"}

\* The status codes of the service protocol.  The variable `statuses' is
\* the set the service at hand answers with: these, or any integer.
Statuses == DOMAIN STATUS_CODES

AnyStatuses == 0..MaxStatus

\* The `item' lists Check_getList can answer with.
CheckItems == {<< >>, <<PyStr("c1"), PyStr("c2")>>}

LocationItems == {<< >>, <<PyStr("loc1")>>}

\* A record of the SOAP library, opaque but for its _asdict().
Struct(name) == [struct |-> name]

StateItems == {<< >>, <<Struct("up1")>>}

DowntimeItems == {<< >>, <<Struct("down1")>>}

EchoStrings == {"hello", ""}

\* Time tuples as time.localtime() gives them: nine fields.
T1 == <<2009, 1, 1, 0, 0, 0, 3, 1, 0>>

T2 == <<2009, 1, 2, 0, 0, 0, 4, 2, 0>>

TimeArgs == {PyTuple(T1), PyTuple(T2), None}

CheckArgs == {PyStr("c1"), PyStr("c2"), PyStr("c3"), None}

ResolutionArgs == {PyStr("DAILY"), PyStr("WEEKLY"), PyStr("HOURLY"), None}

\* An answer of the proxy to a call that returns (status, payload).
Reply(status, payload) ==
    [fault |-> FALSE, status |-> PyInt(status), payload |-> payload, response |-> None]

Fault == [fault |-> TRUE, status |-> None, payload |-> None, response |-> None]

\* Payloads matter only with status 0, so failures carry None.
Answers(payloads) ==
    {Reply(0, p) : p \in payloads}
        \cup {Reply(s, None) : s \in statuses \ {0}}
        \cup {Fault}

LoginAnswers == Answers({PyStr(s) : s \in SessionIds})

\* Auth_logout answers with a map holding `status'.
LogoutAnswers ==
    {[fault |-> FALSE, status |-> None, payload |-> None,
      response |-> [status |-> PyInt(s)]] : s \in statuses}
        \cup {Fault}

CheckListAnswers == Answers({[item |-> PyList(l)] : l \in CheckItems})

LocationListAnswers == Answers({[item |-> PyList(l)] : l \in LocationItems})

StatesAnswers == Answers({[item |-> PyList(l)] : l \in StateItems})

DowntimesAnswers == Answers({[item |-> PyList(l)] : l \in DowntimeItems})

EchoAnswers(inString) == Answers({PyStr(inString)})

(* ------------------------- the client object --------------------------- *)

\* The instance attributes, as one record.
self ==
    [apikey |-> apikey, credentials |-> credentials, sessionid |-> sessionid,
     checks |-> checks, locations |-> locations]

\* What a method leaves behind: the attributes, the calls it dispatched,
\* and either the value it returned or the exception it raised.
Returned(obj, sent, value) == [self |-> obj, sent |-> sent, raised |-> None, value |-> value]

Raised(obj, sent, exc) == [self |-> obj, sent |-> sent, raised |-> exc, value |-> None]

\* A call as the proxy sees it: the method name and the positional arguments.
Call(method, args) == [method |-> method, args |-> args]

\* _callWithParams(name, *rest): the call it hands to the proxy.
callWithParams(obj, method, rest) ==
    LET param == IF method = "Auth_login" THEN obj.credentials ELSE obj.sessionid
    IN  Call(method, <<obj.apikey, param>> \o rest)

\* _login, were a rejected login to return False instead of raising.
login_returnsFalse(obj, reply) ==
    LET sent == <<callWithParams(obj, "Auth_login", << >>)>>
    IN  IF reply.fault THEN Raised(obj, sent, TransportError)
        ELSE IF reply.status = PyInt(0)
        THEN Returned([obj EXCEPT !.sessionid = reply.payload], sent, PyBool(TRUE))
        ELSE Returned(obj, sent, PyBool(FALSE))

\* _login
login(obj, reply) ==
    LET sent == <<callWithParams(obj, "Auth_login", << >>)>>
    IN  IF reply.fault THEN Raised(obj, sent, TransportError)
        ELSE IF reply.status = PyInt(0)
        THEN Returned([obj EXCEPT !.sessionid = reply.payload], sent, PyBool(TRUE))
        ELSE Raised(obj, sent, PingdomException(reply.status))

\* __init__, were it to leave the login to a later call.
init_withoutLogin(username, password, key, reply) ==
    Returned([apikey |-> PyStr(key),
              credentials |-> [username |-> PyStr(username), password |-> PyStr(password)],
              sessionid |-> None, checks |-> None, locations |-> None],
             << >>, None)

\* __init__: the attributes are set, then _login runs.
init(username, password, key, reply) ==
    login([apikey |-> PyStr(key),
           credentials |-> [username |-> PyStr(username), password |-> PyStr(password)],
           sessionid |-> None, checks |-> None, locations |-> None],
          reply)

\* _logout, were it to drop the session id whatever Auth_logout answers.
logout_clearsOnFailure(obj, reply) ==
    IF obj.sessionid = None THEN Returned(obj, << >>, PyBool(TRUE))
    ELSE LET sent == <<callWithParams(obj, "Auth_logout", << >>)>>
             out == [obj EXCEPT !.sessionid = None]
         IN  IF reply.fault THEN Raised(obj, sent, TransportError)
             ELSE LET status == reply.response.status
                  IN  IF status = PyInt(0)
                      THEN Returned(out, sent, PyBool(TRUE))
                      ELSE Raised(out, sent, PingdomException(status))

\* _logout, were it to empty the two caches along with the session id.
logout_resetsCaches(obj, reply) ==
    IF obj.sessionid = None THEN Returned(obj, << >>, PyBool(TRUE))
    ELSE LET sent == <<callWithParams(obj, "Auth_logout", << >>)>>
         IN  IF reply.fault THEN Raised(obj, sent, TransportError)
             ELSE LET status == reply.response.status
                  IN  IF status = PyInt(0)
                      THEN Returned([obj EXCEPT !.sessionid = None, !.checks = None,
                                                !.locations = None],
                                    sent, PyBool(TRUE))
                      ELSE Raised(obj, sent, PingdomException(status))

\* _logout, were it to keep the session id after a successful Auth_logout.
logout_keepsSession(obj, reply) ==
    IF obj.sessionid = None THEN Returned(obj, << >>, PyBool(TRUE))
    ELSE LET sent == <<callWithParams(obj, "Auth_logout", << >>)>>
         IN  IF reply.fault THEN Raised(obj, sent, TransportError)
             ELSE LET status == reply.response.status
                  IN  IF status = PyInt(0)
                      THEN Returned(obj, sent, PyBool(TRUE))
                      ELSE Raised(obj, sent, PingdomException(status))

\* _logout, were it to lack the early return for a client without session.
logout_noGuard(obj, reply) ==
    LET sent == <<callWithParams(obj, "Auth_logout", << >>)>>
    IN  IF reply.fault THEN Raised(obj, sent, TransportError)
        ELSE LET status == reply.response.status
             IN  IF status = PyInt(0)
                 THEN Returned([obj EXCEPT !.sessionid = None], sent, PyBool(TRUE))
                 ELSE Raised(obj, sent, PingdomException(status))

\* _logout
logout(obj, reply) ==
    IF obj.sessionid = None THEN Returned(obj, << >>, PyBool(TRUE))
    ELSE LET sent == <<callWithParams(obj, "Auth_logout", << >>)>>
         IN  IF reply.fault THEN Raised(obj, sent, TransportError)
             ELSE LET status == reply.response.status
                  IN  IF status = PyInt(0)
                      THEN Returned([obj EXCEPT !.sessionid = None], sent, PyBool(TRUE))
                      ELSE Raised(obj, sent, PingdomException(status))

\* _check_getList, were it to leave an empty list behind when the call fails.
check_getList_emptyOnFailure(obj, reply) ==
    LET sent == <<callWithParams(obj, "Check_getList", << >>)>>
    IN  IF reply.fault THEN Raised(obj, sent, TransportError)
        ELSE IF reply.status = PyInt(0)
        THEN Returned([obj EXCEPT !.checks = reply.payload.item], sent, PyBool(TRUE))
        ELSE Raised([obj EXCEPT !.checks = PyList(<< >>)], sent,
                    PingdomException(reply.status))

\* _check_getList
check_getList(obj, reply) ==
    LET sent == <<callWithParams(obj, "Check_getList", << >>)>>
    IN  IF reply.fault THEN Raised(obj, sent, TransportError)
        ELSE IF reply.status = PyInt(0)
        THEN Returned([obj EXCEPT !.checks = reply.payload.item], sent, PyBool(TRUE))
        ELSE Raised(obj, sent, PingdomException(reply.status))

\* _location_getList, were it to store the list in _checks.
location_getList_storesInChecks(obj, reply) ==
    LET sent == <<callWithParams(obj, "Location_getList", << >>)>>
    IN  IF reply.fault THEN Raised(obj, sent, TransportError)
        ELSE IF reply.status = PyInt(0)
        THEN Returned([obj EXCEPT !.checks = reply.payload.item], sent, PyBool(TRUE))
        ELSE Raised(obj, sent, PingdomException(reply.status))

\* _location_getList
location_getList(obj, reply) ==
    LET sent == <<callWithParams(obj, "Location_getList", << >>)>>
    IN  IF reply.fault THEN Raised(obj, sent, TransportError)
        ELSE IF reply.status = PyInt(0)
        THEN Returned([obj EXCEPT !.locations = reply.payload.item], sent, PyBool(TRUE))
        ELSE Raised(obj, sent, PingdomException(reply.status))

\* x._asdict() of a record of the SOAP library.
asdict(x) == [dict |-> x.struct]

\* map(lambda x: x._asdict(), states)
MapAsdict(items) == PyList([i \in 1..Len(items.list) |-> asdict(items.list[i])])

\* _report_getCurrentStates
report_getCurrentStates(obj, reply) ==
    LET sent == <<callWithParams(obj, "Report_getCurrentStates", << >>)>>
    IN  IF reply.fault THEN Raised(obj, sent, TransportError)
        ELSE IF reply.status = PyInt(0)
        THEN Returned(obj, sent, MapAsdict(reply.payload.item))
        ELSE Raised(obj, sent, PingdomException(reply.status))

\* _convertTime: SOAPpy.dateTimeType(time[:6]); None cannot be sliced.
convertTime(time) ==
    IF time = None THEN TypeError("'NoneType' object is unsubscriptable")
    ELSE [dateTime |-> SubSeq(time.tuple, 1, IF Len(time.tuple) < 6 THEN Len(time.tuple) ELSE 6)]

\* _report_getDowntimes: the parameter map names a fixed check and a fixed
\* resolution; its check and resolution arguments are not read.
report_getDowntimes(obj, check, starttime, endtime, resolution, reply) ==
    LET from == convertTime(starttime)
        to == convertTime(endtime)
        params == [checkName |-> PyStr("Communicate"), from |-> from, to |-> to,
                   resolution |-> PyStr("DAILY")]
        sent == <<callWithParams(obj, "Report_getDowntimes", <<params>>)>>
    IN  IF IsException(from) THEN Raised(obj, << >>, from)
        ELSE IF IsException(to) THEN Raised(obj, << >>, to)
        ELSE IF reply.fault THEN Raised(obj, sent, TransportError)
        ELSE IF reply.status = PyInt(0)
        THEN Returned(obj, sent, MapAsdict(reply.payload.item))
        ELSE Raised(obj, sent, PingdomException(reply.status))

\* The property `checks', were it to fetch the list on every access.
checksProperty_alwaysFetches(obj, reply) ==
    LET out == check_getList(obj, reply)
    IN  IF out.raised # None THEN out
        ELSE Returned(out.self, out.sent, out.self.checks)

\* The property `checks'.
checksProperty(obj, reply) ==
    IF obj.checks = None
    THEN LET out == check_getList(obj, reply)
         IN  IF out.raised # None THEN out
             ELSE Returned(out.self, out.sent, out.self.checks)
    ELSE Returned(obj, << >>, obj.checks)

\* The property `locations'.
locationsProperty(obj, reply) ==
    IF obj.locations = None
    THEN LET out == location_getList(obj, reply)
         IN  IF out.raised # None THEN out
             ELSE Returned(out.self, out.sent, out.self.locations)
    ELSE Returned(obj, << >>, obj.locations)

\* The property `states', were it to answer from a cache like `checks'.
statesProperty_cached(obj, reply) ==
    IF obj.checks = None THEN report_getCurrentStates(obj, reply)
    ELSE Returned(obj, << >>, obj.checks)

\* The property `states'.
statesProperty(obj, reply) == report_getCurrentStates(obj, reply)

\* The property `loggedin'.
loggedin(obj) == Returned(obj, << >>, PyBool(obj.sessionid # None))

\* The property `apikey'.
apikeyProperty(obj) == Returned(obj, << >>, obj.apikey)

\* The property `username' reads self.credentials, which is never set.
username(obj) == Raised(obj, << >>, AttributeError("credentials"))

\* __repr__ reads self.sessionid, which is never set.
repr(obj) == Raised(obj, << >>, AttributeError("sessionid"))

\* downtimes() calls _report_getDowntimes without its four arguments.
downtimes(obj) ==
    Raised(obj, << >>, TypeError("_report_getDowntimes() takes exactly 5 arguments (1 given)"))

\* x in seq, for a Python list
InList(x, l) == \E i \in 1..Len(l.list) : l.list[i] = x

\* resolution in REPORT_RESOLUTIONS
InResolutions(resolution) ==
    IF DOMAIN resolution = {"str"} THEN resolution.str \in DOMAIN REPORT_RESOLUTIONS
    ELSE FALSE

\* downtimesFor, were it to look the check up before comparing the times.
downtimesFor_looksUpFirst(obj, check, starttime, endtime, resolution, listReply, reportReply) ==
    LET got == checksProperty(obj, listReply)
    IN  IF got.raised # None THEN got
        ELSE IF ~InList(check, got.value)
        THEN Raised(got.self, got.sent, PingdomException(PyStr("No such check available")))
        ELSE IF starttime = endtime
        THEN Raised(got.self, got.sent,
                    ValueError("Start time and end time must be different"))
        ELSE IF ~InResolutions(resolution)
        THEN Raised(got.self, got.sent, ValueError("Invalid report resolution"))
        ELSE IF None \in {check, starttime, endtime, resolution}
        THEN Raised(got.self, got.sent, TypeError("Invalid type: NoneType"))
        ELSE LET out == report_getDowntimes(got.self, check, starttime, endtime,
                                            resolution, reportReply)
             IN  [out EXCEPT !.sent = got.sent \o @]

\* downtimesFor, were it to fetch the check list itself on every call.
downtimesFor_refreshesChecks(obj, check, starttime, endtime, resolution, listReply, reportReply) ==
    IF starttime = endtime
    THEN Raised(obj, << >>, ValueError("Start time and end time must be different"))
    ELSE IF ~InResolutions(resolution)
    THEN Raised(obj, << >>, ValueError("Invalid report resolution"))
    ELSE LET got == check_getList(obj, listReply)
         IN  IF got.raised # None THEN got
             ELSE IF ~InList(check, got.self.checks)
             THEN Raised(got.self, got.sent, PingdomException(PyStr("No such check available")))
             ELSE IF None \in {check, starttime, endtime, resolution}
             THEN Raised(got.self, got.sent, TypeError("Invalid type: NoneType"))
             ELSE LET out == report_getDowntimes(got.self, check, starttime, endtime,
                                                 resolution, reportReply)
                  IN  [out EXCEPT !.sent = got.sent \o @]

\* downtimesFor, were it to test the resolution before comparing the times.
downtimesFor_resolutionFirst(obj, check, starttime, endtime, resolution, listReply, reportReply) ==
    IF ~InResolutions(resolution)
    THEN Raised(obj, << >>, ValueError("Invalid report resolution"))
    ELSE IF starttime = endtime
    THEN Raised(obj, << >>, ValueError("Start time and end time must be different"))
    ELSE LET got == checksProperty(obj, listReply)
         IN  IF got.raised # None THEN got
             ELSE IF ~InList(check, got.value)
             THEN Raised(got.self, got.sent, PingdomException(PyStr("No such check available")))
             ELSE IF None \in {check, starttime, endtime, resolution}
             THEN Raised(got.self, got.sent, TypeError("Invalid type: NoneType"))
             ELSE LET out == report_getDowntimes(got.self, check, starttime, endtime,
                                                 resolution, reportReply)
                  IN  [out EXCEPT !.sent = got.sent \o @]

\* downtimesFor(check, starttime, endtime, resolution)
downtimesFor(obj, check, starttime, endtime, resolution, listReply, reportReply) ==
    IF starttime = endtime
    THEN Raised(obj, << >>, ValueError("Start time and end time must be different"))
    ELSE IF ~InResolutions(resolution)
    THEN Raised(obj, << >>, ValueError("Invalid report resolution"))
    ELSE LET got == checksProperty(obj, listReply)
         IN  IF got.raised # None THEN got
             ELSE IF ~InList(check, got.value)
             THEN Raised(got.self, got.sent, PingdomException(PyStr("No such check available")))
             ELSE IF None \in {check, starttime, endtime, resolution}
             THEN Raised(got.self, got.sent, TypeError("Invalid type: NoneType"))
             ELSE LET out == report_getDowntimes(got.self, check, starttime, endtime,
                                                 resolution, reportReply)
                  IN  [out EXCEPT !.sent = got.sent \o @]

\* echo, were it to take the answer's two parts in the other order.
echo_returnsStatus(obj, inString, reply) ==
    LET sent == <<Call("Test_echo", <<inString>>)>>
    IN  IF reply.fault THEN Raised(obj, sent, TransportError)
        ELSE IF reply.status = PyInt(0)
        THEN Returned(obj, sent, reply.status)
        ELSE Raised(obj, sent, PingdomException(reply.status))

\* echo(inString): the proxy method is called directly.
echo(obj, inString, reply) ==
    LET sent == <<Call("Test_echo", <<inString>>)>>
    IN  IF reply.fault THEN Raised(obj, sent, TransportError)
        ELSE IF reply.status = PyInt(0)
        THEN Returned(obj, sent, reply.payload)
        ELSE Raised(obj, sent, PingdomException(reply.status))

\* __del__
del(obj, reply) == logout(obj, reply)

(* ------------------------------ actions -------------------------------- *)

\* The operations that reach the proxy or change the client; `accesses'
\* counts the runs of each.
Ops == {"checks", "locations", "states", "downtimesFor", "echo", "del"}

RECURSIVE Sum(_, _)
Sum(f, S) == IF S = {} THEN 0
             ELSE LET x == CHOOSE y \in S : TRUE IN f[x] + Sum(f, S \ {x})

OpsDone == Sum(accesses, Ops)

\* The effect of a method call on the state.
Apply(out) ==
    /\ apikey' = out.self.apikey
    /\ credentials' = out.self.credentials
    /\ sessionid' = out.self.sessionid
    /\ checks' = out.self.checks
    /\ locations' = out.self.locations
    /\ calls' = calls \o out.sent
    /\ statuses' = statuses

\* Whether a method run dispatched `method'.  An answer is drawn for the
\* calls a run dispatches only: Fault stands in where none is asked for.
Asked(out, method) == \E i \in 1..Len(out.sent) : out.sent[i].method = method

RepliesFor(out, method, answers) == IF Asked(out, method) THEN answers ELSE {Fault}

\* What the caller gets back from `op' called with `args', together with
\* the answers the proxy gave to the calls dispatched meanwhile, in order.
Outcome(op, args, out, answers) ==
    [op |-> op, args |-> args, raised |-> out.raised, value |-> out.value,
     answered |-> answers]

\* The answer to the only call a run can dispatch, if it dispatched it.
OneAnswer(out, reply) == IF out.sent = << >> THEN << >> ELSE <<reply>>

\* No call is in progress: the caller has dealt with the last outcome.
NoResult == [op |-> "", args |-> << >>, raised |-> None, value |-> None, answered |-> << >>]

\* A caller holding the client invokes `op' on it.
Enter(op) ==
    /\ phase = "ready"
    /\ result = NoResult
    /\ OpsDone < MaxOps
    /\ accesses' = [accesses EXCEPT ![op] = @ + 1]
    /\ UNCHANGED <<phase, stderr>>

\* The same for an accessor that only reads the client.
Read ==
    /\ phase = "ready"
    /\ result = NoResult
    /\ UNCHANGED <<phase, stderr, accesses>>

\* Pingdom(username, password, apikey).  When the constructor raises, the
\* caller gets no reference: only the finalizer can still run.
Construct ==
    /\ phase = "new"
    /\ \E u \in Usernames, p \in Passwords, k \in ApiKeys, reply \in LoginAnswers :
          LET out == init(u, p, k, reply)
          IN  /\ Apply(out)
              /\ result' = Outcome("init", <<PyStr(u), PyStr(p), PyStr(k)>>, out,
                                   OneAnswer(out, reply))
              /\ phase' = IF out.raised = None THEN "ready" ELSE "failed"
    /\ UNCHANGED <<accesses, stderr>>

Checks ==
    /\ Enter("checks")
    /\ \E reply \in RepliesFor(checksProperty(self, Fault), "Check_getList", CheckListAnswers) :
          LET out == checksProperty(self, reply)
          IN  Apply(out) /\ result' = Outcome("checks", << >>, out, OneAnswer(out, reply))

Locations ==
    /\ Enter("locations")
    /\ \E reply \in RepliesFor(locationsProperty(self, Fault), "Location_getList",
                              LocationListAnswers) :
          LET out == locationsProperty(self, reply)
          IN  Apply(out) /\ result' = Outcome("locations", << >>, out, OneAnswer(out, reply))

States ==
    /\ Enter("states")
    /\ \E reply \in RepliesFor(statesProperty(self, Fault), "Report_getCurrentStates",
                              StatesAnswers) :
          LET out == statesProperty(self, reply)
          IN  Apply(out) /\ result' = Outcome("states", << >>, out, OneAnswer(out, reply))

Downtimes ==
    /\ Read
    /\ LET out == downtimes(self)
       IN  Apply(out) /\ result' = Outcome("downtimes", << >>, out, << >>)

DowntimesFor ==
    /\ Enter("downtimesFor")
    /\ \E check \in CheckArgs, starttime \in TimeArgs, endtime \in TimeArgs,
          resolution \in ResolutionArgs :
       \E listReply \in RepliesFor(downtimesFor(self, check, starttime, endtime, resolution,
                                                Fault, Fault),
                                   "Check_getList", CheckListAnswers) :
       \E reportReply \in RepliesFor(downtimesFor(self, check, starttime, endtime, resolution,
                                                  listReply, Fault),
                                     "Report_getDowntimes", DowntimesAnswers) :
          LET out == downtimesFor(self, check, starttime, endtime, resolution,
                                  listReply, reportReply)
              answers == [i \in 1..Len(out.sent) |->
                             IF out.sent[i].method = "Check_getList" THEN listReply
                             ELSE reportReply]
          IN  /\ Apply(out)
              /\ result' = Outcome("downtimesFor",
                                   <<check, starttime, endtime, resolution>>, out, answers)

Echo ==
    /\ Enter("echo")
    /\ \E s \in EchoStrings : \E reply \in EchoAnswers(s) :
          LET out == echo(self, PyStr(s), reply)
          IN  /\ Apply(out)
              /\ result' = Outcome("echo", <<PyStr(s)>>, out, OneAnswer(out, reply))

Loggedin ==
    /\ Read
    /\ LET out == loggedin(self)
       IN  Apply(out) /\ result' = Outcome("loggedin", << >>, out, << >>)

Apikey ==
    /\ Read
    /\ LET out == apikeyProperty(self)
       IN  Apply(out) /\ result' = Outcome("apikey", << >>, out, << >>)

Username ==
    /\ Read
    /\ LET out == username(self)
       IN  Apply(out) /\ result' = Outcome("username", << >>, out, << >>)

Repr ==
    /\ Read
    /\ LET out == repr(self)
       IN  Apply(out) /\ result' = Outcome("repr", << >>, out, << >>)

\* The finalizer, run by the interpreter when the object is collected (also
\* after a constructor that raised, and possibly more than once).  The
\* interpreter does not propagate what __del__ raises: it prints the
\* exception on stderr and carries on, so nothing is raised to any caller.
Del ==
    /\ phase \in {"ready", "failed", "disposed"}
    /\ result = NoResult
    /\ OpsDone < MaxOps
    /\ accesses' = [accesses EXCEPT !["del"] = @ + 1]
    /\ phase' = "disposed"
    /\ \E reply \in RepliesFor(del(self, Fault), "Auth_logout", LogoutAnswers) :
          LET out == del(self, reply)
          IN  /\ Apply(out)
              /\ stderr' = IF out.raised = None THEN stderr
                           ELSE Append(stderr, out.raised)
              /\ result' = Outcome("del", << >>, Returned(out.self, out.sent, None),
                                   OneAnswer(out, reply))

\* The calls are synchronous: the caller takes the value or the exception
\* of one call before it makes the next.
Return ==
    /\ result # NoResult
    /\ result' = NoResult
    /\ UNCHANGED <<phase, apikey, credentials, sessionid, checks, locations,
                   calls, accesses, stderr, statuses>>

Init ==
    /\ phase = "new"
    /\ apikey = None
    /\ credentials = None
    /\ sessionid = None
    /\ checks = None
    /\ locations = None
    /\ calls = << >>
    /\ accesses = [op \in Ops |-> 0]
    /\ result = NoResult
    /\ stderr = << >>
    /\ statuses = Statuses

\* The same client against a service that may answer with any status.
InitAnyStatus ==
    /\ phase = "new"
    /\ apikey = None
    /\ credentials = None
    /\ sessionid = None
    /\ checks = None
    /\ locations = None
    /\ calls = << >>
    /\ accesses = [op \in Ops |-> 0]
    /\ result = NoResult
    /\ stderr = << >>
    /\ statuses = AnyStatuses

Next ==
    \/ Construct
    \/ Checks
    \/ Locations
    \/ States
    \/ Downtimes
    \/ DowntimesFor
    \/ Echo
    \/ Loggedin
    \/ Apikey
    \/ Username
    \/ Repr
    \/ Del
    \/ Return

Spec == Init /\ [][Next]_vars

SpecAnyStatus == InitAnyStatus /\ [][Next]_vars

(* ----------------------------- properties ------------------------------ *)

\* How many calls of `method' a call log holds.
NumCallsIn(log, method) == Cardinality({i \in 1..Len(log) : log[i].method = method})

NumCalls(method) == NumCallsIn(calls, method)

\* The calls dispatched by the operation whose outcome is in `result'.
OpCalls == SubSeq(calls, Len(calls) - Len(result.answered) + 1, Len(calls))

\* A step that runs the operation `op'.
Runs(op) == accesses'[op] # accesses[op]

\* The calls a step dispatches: the log only grows.
NewCalls == SubSeq(calls', Len(calls) + 1, Len(calls'))

\* A step that dispatches no call of `method'.
NoNewCall(method) ==
    /\ SubSeq(calls', 1, Len(calls)) = calls
    /\ \A i \in 1..Len(NewCalls) : NewCalls[i].method # method

\* A step that dispatches one call, of `method'.
OneNewCall(method) ==
    /\ SubSeq(calls', 1, Len(calls)) = calls
    /\ Len(NewCalls) = 1
    /\ NewCalls[1].method = method

\* An answer with status `s' to a call that returns (status, payload).
Accepted(reply) == ~reply.fault /\ reply.status = PyInt(0)

Rejected(reply) == ~reply.fault /\ reply.status # PyInt(0)

\* C1: a constructor whose Auth_login is answered with status 0 returns a
\* client holding exactly the session id of the answer; one whose
\* Auth_login is answered with another status raises PingdomException with
\* that status and stores no session id.
C1_LoginContract ==
    result.op = "init" =>
        LET reply == result.answered[1]
        IN  /\ Accepted(reply) =>
                 /\ result.raised = None
                 /\ phase = "ready"
                 /\ sessionid # None
                 /\ sessionid = reply.payload
            /\ Rejected(reply) =>
                 /\ result.raised = PingdomException(reply.status)
                 /\ result.raised.exception = "PingdomException"
                 /\ result.raised.status = reply.status
                 /\ phase = "failed"
                 /\ sessionid = None

\* C1 witness: a login rejected with status 5 has made the constructor fail.
C1_Witness ==
    /\ result.op = "init"
    /\ Rejected(result.answered[1])
    /\ result.answered[1].status = PyInt(5)
    /\ result.raised = PingdomException(PyInt(5))
    /\ phase = "failed"

\* C2 as stated: whatever the proxy answers, Check_getList is dispatched at
\* most once, and a filled cache never changes.
C2_AtMostOneCheckGetList ==
    /\ [](accesses["downtimesFor"] = 0 => NumCalls("Check_getList") <= 1)
    /\ [][checks # None => checks' = checks]_vars

\* C2 as amended: the checks cache is filled by the first Check_getList that
\* is answered with status 0 and by nothing else; once it is filled no
\* Check_getList is dispatched any more and its value never changes, while an
\* access whose Check_getList fails leaves it empty and dispatches one call.
C2_ChecksCachedAfterSuccess ==
    [][/\ checks # None => (checks' = checks /\ NoNewCall("Check_getList"))
       /\ (checks = None /\ Runs("checks")) =>
             /\ OneNewCall("Check_getList")
             /\ IF Accepted(result'.answered[1])
                THEN checks' = result'.answered[1].payload.item /\ checks' # None
                ELSE checks' = None]_vars

\* C2 witness: two accesses to `checks' and a single Check_getList.
C2_Witness ==
    /\ accesses["checks"] >= 2
    /\ accesses["downtimesFor"] = 0
    /\ checks # None
    /\ NumCalls("Check_getList") = 1

\* C3 as stated: Location_getList is dispatched at most once, an access to
\* `checks' never touches the locations cache and an access to `locations'
\* never touches the checks cache.
C3_AtMostOneLocationGetList ==
    /\ [](NumCalls("Location_getList") <= 1)
    /\ [][/\ Runs("checks") => (locations' = locations /\ NoNewCall("Location_getList"))
          /\ Runs("locations") => (checks' = checks /\ NoNewCall("Check_getList"))]_vars

\* C3 as amended: the locations cache is filled by the first Location_getList
\* answered with status 0; once filled, no Location_getList is dispatched and
\* the value never changes; an access to `checks' neither dispatches
\* Location_getList nor changes the locations cache, and an access to
\* `locations' neither dispatches Check_getList nor changes the checks cache.
C3_LocationsCachedIndependently ==
    [][/\ locations # None => (locations' = locations /\ NoNewCall("Location_getList"))
       /\ (locations = None /\ Runs("locations")) =>
             /\ OneNewCall("Location_getList")
             /\ IF Accepted(result'.answered[1])
                THEN locations' = result'.answered[1].payload.item /\ locations' # None
                ELSE locations' = None
       /\ Runs("checks") => (locations' = locations /\ NoNewCall("Location_getList"))
       /\ Runs("locations") => (checks' = checks /\ NoNewCall("Check_getList"))]_vars

\* C3 witness: `checks' and `locations' have both been read, `locations'
\* twice, with one Location_getList and one Check_getList.
C3_Witness ==
    /\ accesses["locations"] >= 2
    /\ accesses["checks"] >= 1
    /\ locations # None
    /\ checks # None
    /\ NumCalls("Location_getList") = 1
    /\ NumCalls("Check_getList") = 1

\* C4: N accesses to `states' dispatch exactly N Report_getCurrentStates
\* calls, and an access stores nothing in the client.
C4_StatesAlwaysFetched ==
    /\ [](NumCalls("Report_getCurrentStates") = accesses["states"])
    /\ [][Runs("states") =>
             /\ <<sessionid, checks, locations, apikey, credentials>>'
                   = <<sessionid, checks, locations, apikey, credentials>>
             /\ OneNewCall("Report_getCurrentStates")]_vars

\* C4 witness: two accesses to `states', two calls, the second one answered
\* with a list of states.
C4_Witness ==
    /\ accesses["states"] = 2
    /\ NumCalls("Report_getCurrentStates") = 2
    /\ result.op = "states"
    /\ result.value = PyList(<<asdict(Struct("up1"))>>)

\* C5: every call the client dispatches has the API key as first argument
\* and, as second, the credentials (Auth_login) or the session id (all others).
C5_CallArguments ==
    phase = "ready" =>
        \A i \in 1..Len(calls) :
            /\ Len(calls[i].args) >= 2
            /\ calls[i].args[1] = apikey
            /\ calls[i].args[2] = IF calls[i].method = "Auth_login" THEN credentials
                                  ELSE sessionid

\* C6: downtimesFor with different times, resolution DAILY and a check that
\* is not in `checks' raises the not-found PingdomException and dispatches
\* nothing but at most one Check_getList.
C6_NotFoundError ==
    (/\ result.op = "downtimesFor"
     /\ None \notin {result.args[1], result.args[2], result.args[3]}
     /\ result.args[2] # result.args[3]
     /\ result.args[4] = PyStr("DAILY")
     /\ checks # None
     /\ ~InList(result.args[1], checks)) =>
        /\ result.raised # None
        /\ result.raised.exception = "PingdomException"
        /\ Len(OpCalls) <= 1
        /\ \A i \in 1..Len(OpCalls) : OpCalls[i].method = "Check_getList"

\* C7: the parameter map of a dispatched Report_getDowntimes holds the
\* check, the converted times and the resolution the caller passed.
C7_ParamsFollowArguments ==
    (/\ result.op = "downtimesFor"
     /\ Len(OpCalls) > 0
     /\ OpCalls[Len(OpCalls)].method = "Report_getDowntimes") =>
        LET params == OpCalls[Len(OpCalls)].args[3]
        IN  /\ params.checkName = result.args[1]
            /\ params.from = convertTime(result.args[2])
            /\ params.to = convertTime(result.args[3])
            /\ params.resolution = result.args[4]

\* C8: the finalizer of a client that holds a session id dispatches exactly
\* one call, Auth_logout; when it is answered with status 0 the session id is
\* cleared, and when it is answered with another status nothing is raised to
\* any caller and the PingdomException appears on stderr only.
C8_DisposalLoggedIn ==
    [][(Runs("del") /\ sessionid # None) =>
          /\ calls' = Append(calls, Call("Auth_logout", <<apikey, sessionid>>))
          /\ result'.raised = None
          /\ phase' = "disposed"
          /\ LET reply == result'.answered[1]
             IN  /\ (~reply.fault /\ reply.response.status = PyInt(0)) =>
                       (sessionid' = None /\ stderr' = stderr)
                 /\ (~reply.fault /\ reply.response.status # PyInt(0)) =>
                       stderr' = Append(stderr, PingdomException(reply.response.status))]_vars

\* C8 witness: a finalizer whose Auth_logout was answered with status 4 has
\* completed, with the error on stderr.
C8_Witness ==
    /\ result.op = "del"
    /\ Len(result.answered) = 1
    /\ ~result.answered[1].fault
    /\ result.answered[1].response.status = PyInt(4)
    /\ result.raised = None
    /\ stderr = <<PingdomException(PyInt(4))>>
    /\ NumCalls("Auth_logout") = 1

\* C9: the finalizer of a client that holds no session id dispatches nothing,
\* raises nothing, prints nothing and leaves the client as it was.
C9_DisposalLoggedOut ==
    [][(Runs("del") /\ sessionid = None) =>
          /\ calls' = calls
          /\ stderr' = stderr
          /\ result'.raised = None
          /\ <<sessionid, checks, locations, apikey, credentials>>'
                = <<sessionid, checks, locations, apikey, credentials>>]_vars

\* C9 witness: a second finalizer run after a successful one, with a single
\* Auth_logout in all.
C9_Witness ==
    /\ accesses["del"] = 2
    /\ result.op = "del"
    /\ result.answered = << >>
    /\ sessionid = None
    /\ stderr = << >>
    /\ NumCalls("Auth_logout") = 1

\* C10: downtimesFor with equal start and end time raises ValueError and
\* dispatches no call, whatever the check and the resolution are and whether
\* or not the checks cache is filled.
C10_EqualTimesRejected ==
    [][(Runs("downtimesFor") /\ result'.args[2] = result'.args[3]) =>
          /\ result'.raised = ValueError("Start time and end time must be different")
          /\ calls' = calls
          /\ checks' = checks]_vars

\* C10 witness: such a call on a client whose checks cache is still empty.
C10_Witness ==
    /\ result.op = "downtimesFor"
    /\ result.args[2] = result.args[3]
    /\ result.args[2] # None
    /\ result.args[1] = PyStr("c3")
    /\ result.args[4] = PyStr("HOURLY")
    /\ checks = None
    /\ result.raised = ValueError("Start time and end time must be different")

\* C11: downtimesFor with different times and a resolution that is not a key
\* of REPORT_RESOLUTIONS (None included) raises ValueError and dispatches no
\* call, whether or not the checks cache is filled.
C11_UnknownResolutionRejected ==
    [][(/\ Runs("downtimesFor")
        /\ result'.args[2] # result'.args[3]
        /\ result'.args[4] \notin {PyStr("DAILY"), PyStr("WEEKLY"), PyStr("MONTHLY")}) =>
          /\ result'.raised = ValueError("Invalid report resolution")
          /\ calls' = calls
          /\ checks' = checks]_vars

\* C11 witness: downtimesFor(c1, T1, T2, "HOURLY") on a client whose checks
\* cache is still empty.
C11_Witness ==
    /\ result.op = "downtimesFor"
    /\ result.args = <<PyStr("c1"), PyTuple(T1), PyTuple(T2), PyStr("HOURLY")>>
    /\ checks = None
    /\ result.raised = ValueError("Invalid report resolution")
    /\ result.answered = << >>

\* The rules of downtimesFor, on the arguments and the check list at hand.
Rule1Fails(args) == args[2] = args[3]

Rule2Fails(args) == args[4] \notin {PyStr("DAILY"), PyStr("WEEKLY"), PyStr("MONTHLY")}

Rule3Fails(args, list) == \A i \in 1..Len(list.list) : list.list[i] # args[1]

Rule4Fails(args) == \E i \in 1..4 : args[i] = None

\* C12: the outcome of downtimesFor is decided by the first rule that fails,
\* in the order equal times, unknown resolution, check not in `checks',
\* argument absent; the last one raises TypeError; and Report_getDowntimes
\* is dispatched only when no rule fails.
C12_ValidationOrder ==
    result.op = "downtimesFor" =>
        LET args == result.args
            reported == \E i \in 1..Len(OpCalls) : OpCalls[i].method = "Report_getDowntimes"
        IN  /\ Rule1Fails(args) =>
                 result.raised = ValueError("Start time and end time must be different")
            /\ (~Rule1Fails(args) /\ Rule2Fails(args)) =>
                 result.raised = ValueError("Invalid report resolution")
            /\ (~Rule1Fails(args) /\ ~Rule2Fails(args) /\ checks # None
                  /\ Rule3Fails(args, checks)) =>
                 /\ result.raised # None
                 /\ result.raised # TypeError("Invalid type: NoneType")
                 /\ result.raised.exception \notin {"ValueError", "TypeError"}
            /\ (~Rule1Fails(args) /\ ~Rule2Fails(args) /\ checks # None
                  /\ ~Rule3Fails(args, checks) /\ Rule4Fails(args)) =>
                 result.raised = TypeError("Invalid type: NoneType")
            /\ reported =>
                 /\ ~Rule1Fails(args) /\ ~Rule2Fails(args) /\ checks # None
                 /\ ~Rule3Fails(args, checks) /\ ~Rule4Fails(args)
                 /\ OpCalls[Len(OpCalls)].method = "Report_getDowntimes"
            /\ (~Rule1Fails(args) /\ ~Rule2Fails(args) /\ checks # None
                  /\ ~Rule3Fails(args, checks) /\ ~Rule4Fails(args)) => reported

\* C12 witness: an absent end time with a known check and a valid
\* resolution has raised TypeError.
C12_Witness ==
    /\ result.op = "downtimesFor"
    /\ result.args = <<PyStr("c1"), PyTuple(T1), None, PyStr("WEEKLY")>>
    /\ result.raised = TypeError("Invalid type: NoneType")
    /\ checks = PyList(<<PyStr("c1"), PyStr("c2")>>)

\* C13: no call but Auth_login is dispatched by a client that holds no
\* session id.
C13_SessionHeldWhenCalling ==
    [][/\ SubSeq(calls', 1, Len(calls)) = calls
       /\ \A i \in 1..Len(NewCalls) :
             NewCalls[i].method # "Auth_login" => sessionid # None]_vars

\* C13 witness: a client that dispatched Check_getList while logged in has
\* been logged out by its finalizer, and a second finalizer run has
\* dispatched nothing.
C13_Witness ==
    /\ phase = "disposed"
    /\ sessionid = None
    /\ accesses["del"] = 2
    /\ accesses["checks"] = 1
    /\ Len(calls) = 3
    /\ calls[2].method = "Check_getList"
    /\ calls[3].method = "Auth_logout"

\* C14 as stated: no operation dispatches more than one call.
C14_AtMostOneRoundTrip == [][Len(calls') <= Len(calls) + 1]_vars

\* C14 as amended: an operation dispatches at most one call, except
\* downtimesFor on a client whose checks cache is empty, which dispatches
\* Check_getList and then, when no rule fails, Report_getDowntimes.
C14_RoundTripsPerOperation ==
    [][/\ SubSeq(calls', 1, Len(calls)) = calls
       /\ Len(NewCalls) <= 2
       /\ Len(NewCalls) = 2 =>
             /\ Runs("downtimesFor")
             /\ checks = None
             /\ NewCalls[1].method = "Check_getList"
             /\ NewCalls[2].method = "Report_getDowntimes"]_vars

\* C14 witness: a downtimesFor that dispatched two calls.
C14_Witness ==
    /\ result.op = "downtimesFor"
    /\ Len(result.answered) = 2
    /\ Len(calls) = 3
    /\ calls[2].method = "Check_getList"
    /\ calls[3].method = "Report_getDowntimes"

\* The operations C15 speaks of, the finalizer aside.
ReportingOps == {"init", "checks", "locations", "states", "downtimesFor", "echo"}

\* C15: an operation one of whose calls is answered with a non-zero status
\* raises PingdomException carrying that status, whatever the integer is, and
\* an operation raises nothing or a service, validation or transport error.
C15_ServiceErrorCarriesStatus ==
    result.op \in ReportingOps =>
        /\ \A i \in 1..Len(result.answered) :
              Rejected(result.answered[i]) =>
                 /\ result.raised # None
                 /\ result.raised.exception = "PingdomException"
                 /\ result.raised.status = result.answered[i].status
        /\ \/ result.raised = None
           \/ result.raised.exception
                 \in {"PingdomException", "ValueError", "TypeError", "TransportError"}

\* An answer of Auth_logout, which holds its status in a map.
LogoutAccepted(reply) == ~reply.fault /\ reply.response.status = PyInt(0)

LogoutRejected(reply) == ~reply.fault /\ reply.response.status # PyInt(0)

\* C16: the session id is set once, by the accepted login of the
\* constructor, is cleared only by an accepted Auth_logout, and is never set
\* again once the constructor is over.
C16_SessionLifecycle ==
    [][/\ phase' = "new" => phase = "new"
       /\ (phase # "new" /\ sessionid = None) => sessionid' = None
       /\ sessionid' # sessionid =>
             \/ /\ sessionid = None
                /\ phase = "new"
                /\ phase' = "ready"
                /\ Accepted(result'.answered[1])
                /\ sessionid' = result'.answered[1].payload
             \/ /\ sessionid # None
                /\ sessionid' = None
                /\ Runs("del")
                /\ OneNewCall("Auth_logout")
                /\ LogoutAccepted(result'.answered[1])]_vars

\* C16 witness: a client that logged in, read `states' and was logged out.
C16_Witness ==
    /\ phase = "disposed"
    /\ sessionid = None
    /\ accesses["del"] = 1
    /\ Len(calls) = 3
    /\ calls[1].method = "Auth_login"
    /\ calls[2].method = "Report_getCurrentStates"
    /\ calls[3].method = "Auth_logout"
    /\ calls[3].args[2] \in {PyStr(t) : t \in SessionIds}

\* C17: echo(s) answered with status 0 and s returns s; answered with
\* another status it raises PingdomException and returns nothing; and it
\* changes neither the session id nor the caches.
C17_EchoRoundTrip ==
    /\ [](result.op = "echo" =>
             LET reply == result.answered[1]
             IN  /\ (Accepted(reply) /\ reply.payload = result.args[1]) =>
                      (result.raised = None /\ result.value = result.args[1])
                 /\ Rejected(reply) =>
                      /\ result.raised = PingdomException(reply.status)
                      /\ result.raised.exception = "PingdomException"
                      /\ result.value = None)
    /\ [][Runs("echo") =>
             <<sessionid, checks, locations>>' = <<sessionid, checks, locations>>]_vars

\* C17 witness: echo("hello") has returned "hello" on a client whose checks
\* cache is filled.
C17_Witness ==
    /\ result.op = "echo"
    /\ result.args = <<PyStr("hello")>>
    /\ Accepted(result.answered[1])
    /\ result.value = PyStr("hello")
    /\ checks = PyList(<<PyStr("c1"), PyStr("c2")>>)
    /\ sessionid # None

\* C18: a Check_getList or Location_getList answered with a non-zero status
\* leaves its cache empty and the session id and the other cache as they
\* were; an access to an empty cache dispatches the list call; and a cache
\* changes only by a list call answered with status 0.
C18_FailedListCallNotCached ==
    [][/\ SubSeq(calls', 1, Len(calls)) = calls
       /\ \A i \in 1..Len(NewCalls) :
             /\ (NewCalls[i].method = "Check_getList" /\ Rejected(result'.answered[i])) =>
                   /\ checks = None /\ checks' = None
                   /\ sessionid' = sessionid /\ locations' = locations
             /\ (NewCalls[i].method = "Location_getList" /\ Rejected(result'.answered[i])) =>
                   /\ locations = None /\ locations' = None
                   /\ sessionid' = sessionid /\ checks' = checks
       /\ (checks = None /\ Runs("checks")) => OneNewCall("Check_getList")
       /\ (locations = None /\ Runs("locations")) => OneNewCall("Location_getList")
       /\ (checks' # checks /\ phase # "new") =>
             \E i \in 1..Len(NewCalls) :
                /\ NewCalls[i].method = "Check_getList"
                /\ Accepted(result'.answered[i])
                /\ checks' = result'.answered[i].payload.item
       /\ (locations' # locations /\ phase # "new") =>
             \E i \in 1..Len(NewCalls) :
                /\ NewCalls[i].method = "Location_getList"
                /\ Accepted(result'.answered[i])
                /\ locations' = result'.answered[i].payload.item]_vars

\* C18 witness: a Location_getList answered with status 3 on a client whose
\* checks cache is filled.
C18_Witness ==
    /\ result.op = "locations"
    /\ Len(result.answered) = 1
    /\ Rejected(result.answered[1])
    /\ result.answered[1].status = PyInt(3)
    /\ result.raised = PingdomException(PyInt(3))
    /\ locations = None
    /\ checks = PyList(<<PyStr("c1"), PyStr("c2")>>)
    /\ sessionid # None

\* C19: an Auth_logout answered with a non-zero status leaves the session
\* id set; a logout of a client that holds a session id dispatches
\* Auth_logout; the session id is cleared only by an Auth_logout answered
\* with status 0; and a logout changes neither cache.
C19_FailedLogoutKeepsSession ==
    [][Runs("del") =>
          /\ checks' = checks
          /\ locations' = locations
          /\ sessionid # None =>
                /\ OneNewCall("Auth_logout")
                /\ LogoutRejected(result'.answered[1]) => sessionid' = sessionid
                /\ sessionid' = None => LogoutAccepted(result'.answered[1])]_vars

\* C19 witness: a logout answered with status 6, then one answered with
\* status 0, on a client whose checks cache is filled.
C19_Witness ==
    /\ accesses["del"] = 2
    /\ NumCalls("Auth_logout") = 2
    /\ stderr = <<PingdomException(PyInt(6))>>
    /\ sessionid = None
    /\ checks # None
    /\ result.op = "del"
    /\ LogoutAccepted(result.answered[1])

====
